---- MODULE Spec2Model ----
(***************************************************************************)
(* Model of the three-tier CDK/EKS declaration: app.py constructs one      *)
(* ThreeTierEksStack and synthesizes it.  The constructor is a straight    *)
(* line of construct declarations; each declaration is one action here,    *)
(* in program order.  After synthesis the declared graph is applied and    *)
(* torn down resource by resource, in any order the declared dependency    *)
(* edges allow, and the load-balancer controller and network peers probe   *)
(* the applied permissions and security rules.                             *)
(***************************************************************************)
EXTENDS Integers, Sequences, FiniteSets, TLC

(* ------------------------------ bounds --------------------------------- *)
\* largest number of availability zones a region offers to the account
MaxRegionAZs == 4
\* number of times app.py is run against the same environment
MaxRuns == 2

(* ------------------------- program constants --------------------------- *)
max_azs == 3
nat_gateways == 2
cidr_mask == 24
default_capacity == 0
MinSize == 0
MaxSize == 1000
DesiredSize == 2
MaxUnavailablePercentage == 25
PostgresPort == 5432
backup_retention == 7

None == "None"
\* a construct that has not been declared
Absent == [absent |-> TRUE]

Min(a, b) == IF a <= b THEN a ELSE b

(* ---------------------------- environment ------------------------------ *)
\* os.getenv yields None when the variable is unset
Accounts == {None, "111111111111"}
Regions == {None, "eu-west-1"}
\* every region offers at least two zones
RegionAZCounts == 2..MaxRegionAZs

VARIABLES
  pc,                 \* position in app.py / ThreeTierEksStack.__init__ / deployment
  run,                \* which run of app.py this is
  account, region,    \* CDK_DEFAULT_ACCOUNT, CDK_DEFAULT_REGION
  regionAZs,          \* zones the target region offers
  env,                \* the cdk.Environment the stack was constructed with
  vpc, cluster, db_security_group, db_subnet_group, database,
  alb_service_account,
  outputs,            \* CfnOutput name -> reference
  deps,               \* declared dependency edges <<dependent, dependency>>
  live, retained,     \* deployment: resources that exist / were kept at teardown
  probe, decision,    \* last request or packet probed, and its outcome
  prevTemplate        \* the graph synthesized by the previous run

vars == <<pc, run, account, region, regionAZs, env, vpc, cluster,
          db_security_group, db_subnet_group, database, alb_service_account,
          outputs, deps, live, retained, probe, decision, prevTemplate>>

declVars == <<vpc, cluster, db_security_group, db_subnet_group, database,
              alb_service_account, outputs, deps>>
inputVars == <<run, account, region, regionAZs, prevTemplate>>
deployVars == <<live, retained, probe, decision>>

(* ------------------------------ network -------------------------------- *)
PUBLIC == "PUBLIC"
PRIVATE_WITH_EGRESS == "PRIVATE_WITH_EGRESS"
PRIVATE_ISOLATED == "PRIVATE_ISOLATED"

\* subnet_configuration of the Vpc: one entry per tier
subnet_configuration ==
  << [name |-> "public",   subnet_type |-> PUBLIC,              cidr_mask |-> cidr_mask],
     [name |-> "private",  subnet_type |-> PRIVATE_WITH_EGRESS, cidr_mask |-> cidr_mask],
     [name |-> "database", subnet_type |-> PRIVATE_ISOLATED,    cidr_mask |-> cidr_mask] >>

\* An address is its first two octets; a CIDR block is a prefix of 0, 8 or 16 bits.
Addr == {<<10, 0>>, <<10, 1>>, <<203, 0>>}
InCidr(addr, c) ==
  CASE c.mask = 0  -> TRUE
    [] c.mask = 8  -> addr[1] = c.a
    [] c.mask = 16 -> addr[1] = c.a /\ addr[2] = c.b
any_ipv4 == [a |-> 0, b |-> 0, mask |-> 0]
\* the Vpc construct's address block when none is given: 10.0.0.0/16
DEFAULT_CIDR_RANGE == [a |-> 10, b |-> 0, mask |-> 16]

\* Zones a stack sees: an environment-agnostic stack (account or region
\* unset) gets the first two zones of the region, a resolved one all of them.
StackAZs(e, n) == IF e.account = None \/ e.region = None THEN 1..2 ELSE 1..n

\* The zone whose NAT gateway a private subnet routes through: its own
\* zone's gateway when there is one, else the gateways in round-robin order.
NatFor(az, natAZs) ==
  IF az \in natAZs THEN az ELSE ((az - 1) % Cardinality(natAZs)) + 1

RouteFor(s, natAZs) ==
  CASE s.subnet_type = PUBLIC              -> [target |-> "igw", az |-> 0]
    [] s.subnet_type = PRIVATE_WITH_EGRESS -> [target |-> "nat", az |-> NatFor(s.az, natAZs)]
    [] s.subnet_type = PRIVATE_ISOLATED    -> [target |-> "none", az |-> 0]

\* ec2.Vpc(max_azs=3, nat_gateways=2, subnet_configuration=[...])
Vpc(e, n) ==
  LET azs == {z \in StackAZs(e, n) : z <= max_azs}
      subnets == {[name |-> subnet_configuration[i].name,
                   subnet_type |-> subnet_configuration[i].subnet_type,
                   cidr_mask |-> subnet_configuration[i].cidr_mask,
                   az |-> z] : i \in 1..Len(subnet_configuration), z \in azs}
      natAZs == 1..Min(nat_gateways, Cardinality(azs))
  IN [availability_zones |-> azs,
      vpc_cidr_block |-> DEFAULT_CIDR_RANGE,
      subnets |-> subnets,
      internet_gateway |-> TRUE,
      nat_gateway_azs |-> natAZs,
      default_route |-> [s \in subnets |-> RouteFor(s, natAZs)]]

\* ec2.SubnetSelection(subnet_type=...)
SubnetSelection(v, type) == {s \in v.subnets : s.subnet_type = type}

(* ------------------------------ cluster -------------------------------- *)
ClusterLoggingTypes == {"api", "audit", "authenticator", "controllerManager", "scheduler"}

\* eks.Cluster(version, vpc, default_capacity=0, endpoint_access, vpc_subnets, cluster_logging)
Cluster(v) ==
  [version |-> "1.30",
   default_capacity |-> default_capacity,
   endpoint_access |-> "PUBLIC_AND_PRIVATE",
   subnets |-> SubnetSelection(v, PRIVATE_WITH_EGRESS),
   cluster_logging |-> ClusterLoggingTypes,
   \* a default node group is declared only for a positive default capacity
   nodegroups |-> IF default_capacity > 0 THEN {"DefaultCapacity"} ELSE {},
   overrides |-> [ComputeConfig |-> Absent, StorageConfig |-> Absent]]

\* mutant: the override leaves managed compute switched off
ComputeConfig_Disabled ==
  [Enabled |-> FALSE,
   NodePools |-> << [Name |-> "system",
                     InstanceTypes |-> <<"m5.large", "m5.xlarge", "m4.large">>,
                     ScalingConfig |-> [MinSize |-> MinSize, MaxSize |-> MaxSize,
                                        DesiredSize |-> DesiredSize],
                     UpdateConfig |-> [MaxUnavailablePercentage |-> MaxUnavailablePercentage]] >>]

\* the value passed to add_property_override("ComputeConfig", ...)
ComputeConfig ==
  [Enabled |-> TRUE,
   NodePools |-> << [Name |-> "system",
                     InstanceTypes |-> <<"m5.large", "m5.xlarge", "m4.large">>,
                     ScalingConfig |-> [MinSize |-> MinSize, MaxSize |-> MaxSize,
                                        DesiredSize |-> DesiredSize],
                     UpdateConfig |-> [MaxUnavailablePercentage |-> MaxUnavailablePercentage]] >>]

\* the value passed to add_property_override("StorageConfig", ...)
StorageConfig == [BlockStorage |-> [Enabled |-> TRUE]]

(* ------------------------------ database ------------------------------- *)
\* ec2.SecurityGroup(vpc=vpc, allow_all_outbound=False)
SecurityGroup ==
  [allow_all_outbound |-> FALSE, ingress |-> {}, egress |-> {}]

\* mutant: the rule admits any IPv4 source
IngressRule_AnyIpv4(v) ==
  [peer |-> any_ipv4, protocol |-> "tcp",
   from_port |-> PostgresPort, to_port |-> PostgresPort]

\* add_ingress_rule(peer=ec2.Peer.ipv4(vpc.vpc_cidr_block), connection=ec2.Port.tcp(5432))
IngressRule(v) ==
  [peer |-> v.vpc_cidr_block, protocol |-> "tcp",
   from_port |-> PostgresPort, to_port |-> PostgresPort]

\* mutant: the subnet group selects the private-with-egress tier
SubnetGroup_Private(v) == [subnets |-> SubnetSelection(v, PRIVATE_WITH_EGRESS)]

\* rds.SubnetGroup(vpc=vpc, vpc_subnets=SubnetSelection(PRIVATE_ISOLATED))
SubnetGroup(v) == [subnets |-> SubnetSelection(v, PRIVATE_ISOLATED)]

\* mutant: the database is retained at teardown
DatabaseInstance_Retain(sng, sg) ==
  [engine |-> "postgres", version |-> "15.3",
   instance_type |-> "t3.micro",
   credentials |-> [username |-> "dbadmin", secret |-> "DatabaseSecret", password |-> None],
   subnet_group |-> sng,
   security_groups |-> {sg},
   database_name |-> "threetierdb",
   backup_retention |-> backup_retention,
   deletion_protection |-> FALSE,
   removal_policy |-> "RETAIN"]

\* rds.DatabaseInstance(...)
DatabaseInstance(sng, sg) ==
  [engine |-> "postgres", version |-> "15.3",
   instance_type |-> "t3.micro",
   \* from_generated_secret: the declaration carries the user name and a
   \* reference to a generated secret, never a password
   credentials |-> [username |-> "dbadmin", secret |-> "DatabaseSecret", password |-> None],
   subnet_group |-> sng,
   security_groups |-> {sg},
   database_name |-> "threetierdb",
   backup_retention |-> backup_retention,
   deletion_protection |-> FALSE,
   removal_policy |-> "DESTROY"]

\* mutant: the database is declared without its security group
DatabaseDeps_NoSecurityGroup ==
  {<<"Database", "Network">>, <<"Database", "DatabaseSubnetGroup">>,
   <<"Database", "DatabaseSecret">>}

\* dependency edges the database declaration carries: vpc, subnet_group,
\* security_groups and the generated secret
DatabaseDeps ==
  {<<"Database", "Network">>, <<"Database", "DatabaseSubnetGroup">>,
   <<"Database", "DatabaseSecurityGroup">>, <<"Database", "DatabaseSecret">>}

\* cluster.add_service_account(...): the account lives in the cluster
ServiceAccountDeps == {<<"ALBServiceAccount", "Cluster">>}

(* ------------------------- permission statements ----------------------- *)
RequestedRegion == "aws:RequestedRegion"
ClusterTag == "aws:ResourceTag/elbv2.k8s.aws/cluster"

\* kinds of resource an ARN pattern of the statements can name
ResourceKinds == {"security-group", "targetgroup", "loadbalancer", "listener",
                  "listener-rule", "other"}
\* resources=["*"]
AllResources == ResourceKinds

\* add_to_principal_policy call 1 (lines 140-170)
Statement1 ==
  [effect |-> "Allow",
   actions |-> {
     "iam:CreateServiceLinkedRole", "ec2:DescribeAccountAttributes",
     "ec2:DescribeAddresses", "ec2:DescribeAvailabilityZones",
     "ec2:DescribeInternetGateways", "ec2:DescribeVpcs", "ec2:DescribeSubnets",
     "ec2:DescribeSecurityGroups", "ec2:DescribeInstances",
     "ec2:DescribeNetworkInterfaces", "ec2:DescribeTags", "ec2:GetCoipPoolUsage",
     "ec2:DescribeCoipPools", "elasticloadbalancing:DescribeLoadBalancers",
     "elasticloadbalancing:DescribeLoadBalancerAttributes",
     "elasticloadbalancing:DescribeListeners",
     "elasticloadbalancing:DescribeListenerCertificates",
     "elasticloadbalancing:DescribeSSLPolicies", "elasticloadbalancing:DescribeRules",
     "elasticloadbalancing:DescribeTargetGroups",
     "elasticloadbalancing:DescribeTargetGroupAttributes",
     "elasticloadbalancing:DescribeTargetHealth", "elasticloadbalancing:DescribeTags"},
   resources |-> AllResources,
   conditions |-> [Null |-> {},
                   StringEquals |-> {}]]

\* add_to_principal_policy call 2 (lines 172-197)
Statement2 ==
  [effect |-> "Allow",
   actions |-> {
     "cognito-idp:DescribeUserPoolClient", "acm:ListCertificates",
     "acm:DescribeCertificate", "iam:ListServerCertificates",
     "iam:GetServerCertificate", "waf-regional:GetWebACL",
     "waf-regional:GetWebACLForResource", "waf-regional:AssociateWebACL",
     "waf-regional:DisassociateWebACL", "wafv2:GetWebACL",
     "wafv2:GetWebACLForResource", "wafv2:AssociateWebACL", "wafv2:DisassociateWebACL",
     "shield:DescribeProtection", "shield:GetSubscriptionState",
     "shield:DescribeSubscription", "shield:CreateProtection", "shield:DeleteProtection"},
   resources |-> AllResources,
   conditions |-> [Null |-> {},
                   StringEquals |-> {}]]

\* add_to_principal_policy call 3 (lines 199-218)
Statement3 ==
  [effect |-> "Allow",
   actions |-> {
     "ec2:AuthorizeSecurityGroupIngress", "ec2:RevokeSecurityGroupIngress",
     "ec2:CreateSecurityGroup", "elasticloadbalancing:CreateListener",
     "elasticloadbalancing:DeleteListener", "elasticloadbalancing:CreateRule",
     "elasticloadbalancing:DeleteRule", "elasticloadbalancing:SetWebAcl",
     "elasticloadbalancing:ModifyListener",
     "elasticloadbalancing:AddListenerCertificates",
     "elasticloadbalancing:RemoveListenerCertificates",
     "elasticloadbalancing:ModifyRule"},
   resources |-> AllResources,
   conditions |-> [Null |-> {},
                   StringEquals |-> {}]]

\* add_to_principal_policy call 4 (lines 220-234)
Statement4 ==
  [effect |-> "Allow",
   actions |-> {
     "elasticloadbalancing:CreateLoadBalancer", "elasticloadbalancing:CreateTargetGroup"},
   resources |-> AllResources,
   conditions |-> [Null |-> {"aws:RequestedRegion"},
                   StringEquals |-> {}]]

\* add_to_principal_policy call 5 (lines 236-264)
Statement5 ==
  [effect |-> "Allow",
   actions |-> {
     "elasticloadbalancing:CreateLoadBalancer",
     "elasticloadbalancing:CreateTargetGroup",
     "elasticloadbalancing:DeleteLoadBalancer",
     "elasticloadbalancing:DeleteTargetGroup",
     "elasticloadbalancing:ModifyLoadBalancerAttributes",
     "elasticloadbalancing:ModifyTargetGroup",
     "elasticloadbalancing:ModifyTargetGroupAttributes",
     "elasticloadbalancing:RegisterTargets", "elasticloadbalancing:DeregisterTargets",
     "elasticloadbalancing:SetIpAddressType", "elasticloadbalancing:SetSecurityGroups",
     "elasticloadbalancing:SetSubnets", "elasticloadbalancing:AddTags",
     "elasticloadbalancing:RemoveTags"},
   resources |-> AllResources,
   conditions |-> [Null |-> {"aws:ResourceTag/elbv2.k8s.aws/cluster"},
                   StringEquals |-> {}]]

\* add_to_principal_policy call 6 (lines 266-282)
Statement6 ==
  [effect |-> "Allow",
   actions |-> {
     "ec2:CreateTags"},
   resources |-> {"security-group"},
   conditions |-> [Null |-> {"aws:RequestedRegion"},
                   StringEquals |-> {<<"ec2:CreateAction", "CreateSecurityGroup">>}]]

\* add_to_principal_policy call 7 (lines 284-298)
Statement7 ==
  [effect |-> "Allow",
   actions |-> {
     "ec2:CreateTags", "ec2:DeleteTags"},
   resources |-> {"security-group"},
   conditions |-> [Null |-> {"aws:ResourceTag/elbv2.k8s.aws/cluster"},
                   StringEquals |-> {}]]

\* add_to_principal_policy call 8 (lines 300-315)
Statement8 ==
  [effect |-> "Allow",
   actions |-> {
     "ec2:AuthorizeSecurityGroupIngress", "ec2:RevokeSecurityGroupIngress",
     "ec2:DeleteSecurityGroup"},
   resources |-> AllResources,
   conditions |-> [Null |-> {"aws:ResourceTag/elbv2.k8s.aws/cluster"},
                   StringEquals |-> {}]]

\* add_to_principal_policy call 9 (lines 317-335)
Statement9 ==
  [effect |-> "Allow",
   actions |-> {
     "elasticloadbalancing:AddTags", "elasticloadbalancing:RemoveTags"},
   resources |-> {"loadbalancer", "targetgroup"},
   conditions |-> [Null |-> {"aws:ResourceTag/elbv2.k8s.aws/cluster"},
                   StringEquals |-> {}]]

\* add_to_principal_policy call 10 (lines 337-351)
Statement10 ==
  [effect |-> "Allow",
   actions |-> {
     "elasticloadbalancing:AddTags", "elasticloadbalancing:RemoveTags"},
   resources |-> {"listener", "listener-rule"},
   conditions |-> [Null |-> {},
                   StringEquals |-> {}]]

\* the statements in the order the constructor attaches them
AlbStatements ==
  << Statement1, Statement2, Statement3, Statement4, Statement5,
     Statement6, Statement7, Statement8, Statement9, Statement10 >>

\* A statement's condition block holds for a request: a Null test with value
\* "false" requires the key to be present, StringEquals the key's value.
ConditionsHold(st, req) ==
  /\ \A k \in st.conditions.Null : k \in req.keys
  /\ \A kv \in st.conditions.StringEquals :
        kv[1] = "ec2:CreateAction" /\ req.createAction = kv[2]

StatementAllows(st, req) ==
  /\ st.effect = "Allow"
  /\ req.action \in st.actions
  /\ req.resource \in st.resources
  /\ ConditionsHold(st, req)

\* statements are additive Allows: a request is authorized when any one allows it
Authorized(statements, req) ==
  \E i \in 1..Len(statements) : StatementAllows(statements[i], req)

(* ------------------------------ outputs -------------------------------- *)
\* attributes a resource exports once it exists
AttributesOf(r) ==
  CASE r = "Cluster"  -> {"cluster_name", "cluster_endpoint"}
    [] r = "Database" -> {"instance_endpoint.hostname", "instance_endpoint.port"}
    [] r = "DatabaseSecretAttachment" -> {"secret_arn", "secret_value"}
    [] r = "Network"  -> {"vpc_id", "vpc_cidr_block"}
    [] OTHER -> {}

\* mutant: the secret output exports the secret's value
CfnOutputs_SecretValue ==
  << [name |-> "ClusterName",       ref |-> "Cluster",  attr |-> "cluster_name"],
     [name |-> "DatabaseEndpoint",  ref |-> "Database", attr |-> "instance_endpoint.hostname"],
     [name |-> "DatabaseSecretArn", ref |-> "DatabaseSecretAttachment", attr |-> "secret_value"],
     [name |-> "VpcId",             ref |-> "Network",  attr |-> "vpc_id"] >>

\* the four CfnOutput declarations, in program order: the name, the
\* resource whose attribute is exported, and the attribute
CfnOutputs ==
  << [name |-> "ClusterName",       ref |-> "Cluster",  attr |-> "cluster_name"],
     [name |-> "DatabaseEndpoint",  ref |-> "Database", attr |-> "instance_endpoint.hostname"],
     [name |-> "DatabaseSecretArn", ref |-> "DatabaseSecretAttachment", attr |-> "secret_arn"],
     [name |-> "VpcId",             ref |-> "Network",  attr |-> "vpc_id"] >>

(* --------------------------- the declared graph ------------------------ *)
NoServiceAccount == [name |-> None, namespace |-> None, statements |-> << >>]

\* the resource graph a run has declared so far
Template ==
  [env |-> env, vpc |-> vpc, cluster |-> cluster,
   db_security_group |-> db_security_group, db_subnet_group |-> db_subnet_group,
   database |-> database, alb_service_account |-> alb_service_account,
   outputs |-> outputs, deps |-> deps]

NoTemplate == [env |-> Absent]

\* resources of the declared graph, at the granularity they are applied
Declared ==
     (IF vpc # Absent THEN {"Network"} ELSE {})
  \cup (IF cluster # Absent THEN {"Cluster"} ELSE {})
  \cup (IF db_security_group # Absent THEN {"DatabaseSecurityGroup"} ELSE {})
  \cup (IF db_subnet_group # Absent THEN {"DatabaseSubnetGroup"} ELSE {})
  \cup (IF database # Absent
          THEN {"Database", "DatabaseSecret", "DatabaseSecretAttachment"} ELSE {})
  \cup (IF alb_service_account.name # None THEN {"ALBServiceAccount"} ELSE {})
  \cup (IF Len(alb_service_account.statements) > 0 THEN {"ALBPolicy"} ELSE {})

NoProbe == [kind |-> "none"]

(* ------------------------------- Init ---------------------------------- *)
Init ==
  /\ pc = "app"
  /\ run = 1
  /\ account \in Accounts
  /\ region \in Regions
  /\ regionAZs \in RegionAZCounts
  /\ env = Absent
  /\ vpc = Absent /\ cluster = Absent
  /\ db_security_group = Absent /\ db_subnet_group = Absent /\ database = Absent
  /\ alb_service_account = NoServiceAccount
  /\ outputs = << >>
  /\ deps = {}
  /\ live = {} /\ retained = {}
  /\ probe = NoProbe /\ decision = FALSE
  /\ prevTemplate = NoTemplate

(* ----------------------- app.py and the constructor -------------------- *)
\* program positions of the ten add_to_principal_policy calls
PolicyPc == << "policy1", "policy2", "policy3", "policy4", "policy5",
               "policy6", "policy7", "policy8", "policy9", "policy10" >>
\* program positions of the four CfnOutput declarations
OutputPc == << "output1", "output2", "output3", "output4" >>

\* mutant: the construct tree of the previous run is reused
CreateApp_Stale ==
  /\ pc = "app"
  /\ pc' = "stack"
  /\ UNCHANGED <<env, declVars, inputVars, deployVars>>

\* app = cdk.App(): a new, empty construct tree
CreateApp ==
  /\ pc = "app"
  /\ env' = Absent
  /\ vpc' = Absent /\ cluster' = Absent
  /\ db_security_group' = Absent /\ db_subnet_group' = Absent /\ database' = Absent
  /\ alb_service_account' = NoServiceAccount
  /\ outputs' = << >>
  /\ deps' = {}
  /\ pc' = "stack"
  /\ UNCHANGED <<inputVars, deployVars>>

\* ThreeTierEksStack(app, ..., env=cdk.Environment(account=getenv, region=getenv))
\* and super().__init__
StackInit ==
  /\ pc = "stack"
  /\ env' = [account |-> account, region |-> region]
  /\ pc' = "vpc"
  /\ UNCHANGED <<declVars, inputVars, deployVars>>

DeclareVpc ==
  /\ pc = "vpc"
  /\ vpc' = Vpc(env, regionAZs)
  /\ pc' = "cluster"
  /\ UNCHANGED <<env, cluster, db_security_group, db_subnet_group, database,
                 alb_service_account, outputs, deps, inputVars, deployVars>>

DeclareCluster ==
  /\ pc = "cluster"
  /\ cluster' = Cluster(vpc)
  /\ deps' = deps \cup {<<"Cluster", "Network">>}
  /\ pc' = "compute_config"
  /\ UNCHANGED <<env, vpc, db_security_group, db_subnet_group, database,
                 alb_service_account, outputs, inputVars, deployVars>>

\* cfn_cluster.add_property_override("ComputeConfig", {...})
OverrideComputeConfig ==
  /\ pc = "compute_config"
  /\ cluster' = [cluster EXCEPT !.overrides.ComputeConfig = ComputeConfig]
  /\ pc' = "storage_config"
  /\ UNCHANGED <<env, vpc, db_security_group, db_subnet_group, database,
                 alb_service_account, outputs, deps, inputVars, deployVars>>

\* cfn_cluster.add_property_override("StorageConfig", {...})
OverrideStorageConfig ==
  /\ pc = "storage_config"
  /\ cluster' = [cluster EXCEPT !.overrides.StorageConfig = StorageConfig]
  /\ pc' = "db_security_group"
  /\ UNCHANGED <<env, vpc, db_security_group, db_subnet_group, database,
                 alb_service_account, outputs, deps, inputVars, deployVars>>

DeclareDbSecurityGroup ==
  /\ pc = "db_security_group"
  /\ db_security_group' = SecurityGroup
  /\ deps' = deps \cup {<<"DatabaseSecurityGroup", "Network">>}
  /\ pc' = "add_ingress_rule"
  /\ UNCHANGED <<env, vpc, cluster, db_subnet_group, database,
                 alb_service_account, outputs, inputVars, deployVars>>

AddIngressRule ==
  /\ pc = "add_ingress_rule"
  /\ db_security_group' =
       [db_security_group EXCEPT !.ingress = @ \cup {IngressRule(vpc)}]
  /\ pc' = "db_subnet_group"
  /\ UNCHANGED <<env, vpc, cluster, db_subnet_group, database,
                 alb_service_account, outputs, deps, inputVars, deployVars>>

DeclareDbSubnetGroup ==
  /\ pc = "db_subnet_group"
  /\ db_subnet_group' = SubnetGroup(vpc)
  /\ deps' = deps \cup {<<"DatabaseSubnetGroup", "Network">>}
  /\ pc' = "database"
  /\ UNCHANGED <<env, vpc, cluster, db_security_group, database,
                 alb_service_account, outputs, inputVars, deployVars>>

DeclareDatabase ==
  /\ pc = "database"
  /\ database' = DatabaseInstance("DatabaseSubnetGroup", "DatabaseSecurityGroup")
  /\ deps' = deps \cup DatabaseDeps
                  \cup {<<"DatabaseSecretAttachment", "Database">>,
                        <<"DatabaseSecretAttachment", "DatabaseSecret">>}
  /\ pc' = "alb_service_account"
  /\ UNCHANGED <<env, vpc, cluster, db_security_group, db_subnet_group,
                 alb_service_account, outputs, inputVars, deployVars>>

\* cluster.add_service_account("ALBServiceAccount", name=..., namespace=...)
AddServiceAccount ==
  /\ pc = "alb_service_account"
  /\ alb_service_account' = [name |-> "aws-load-balancer-controller",
                             namespace |-> "kube-system",
                             statements |-> << >>]
  /\ deps' = deps \cup ServiceAccountDeps
  /\ pc' = PolicyPc[1]
  /\ UNCHANGED <<env, vpc, cluster, db_security_group, db_subnet_group, database,
                 outputs, inputVars, deployVars>>

\* the k-th alb_service_account.add_to_principal_policy(...) call
AddToPrincipalPolicy(k) ==
  /\ pc = PolicyPc[k]
  /\ alb_service_account' =
       [alb_service_account EXCEPT !.statements = Append(@, AlbStatements[k])]
  /\ deps' = deps \cup {<<"ALBPolicy", "ALBServiceAccount">>}
  /\ pc' = IF k = Len(AlbStatements) THEN OutputPc[1] ELSE PolicyPc[k + 1]
  /\ UNCHANGED <<env, vpc, cluster, db_security_group, db_subnet_group, database,
                 outputs, inputVars, deployVars>>

\* the k-th CfnOutput(...) declaration
DeclareOutput(k) ==
  /\ pc = OutputPc[k]
  /\ outputs' = Append(outputs, CfnOutputs[k])
  /\ pc' = IF k = Len(CfnOutputs) THEN "synth" ELSE OutputPc[k + 1]
  /\ UNCHANGED <<env, vpc, cluster, db_security_group, db_subnet_group, database,
                 alb_service_account, deps, inputVars, deployVars>>

\* app.synth(): the declared graph becomes the template
Synth ==
  /\ pc = "synth"
  /\ pc' = "synthesized"
  /\ UNCHANGED <<env, declVars, inputVars, deployVars>>

(* ------------------------------ deployment ----------------------------- *)
DependenciesOf(r) == {e[2] : e \in {d \in deps : d[1] = r}}
DependentsOf(r) == {e[1] : e \in {d \in deps : d[2] = r}}

RemovalPolicyOf(r) == IF r = "Database" THEN database.removal_policy ELSE "DESTROY"
DeletionProtected(r) == r = "Database" /\ database.deletion_protection

\* the value an output resolves to: empty until the resource it references exists
Resolve(o) ==
  IF o.ref \in live /\ o.attr \in AttributesOf(o.ref) THEN <<o.ref, o.attr>> ELSE << >>

\* The engine creates one declared resource whose dependencies all exist.
Create(r) ==
  /\ pc \in {"synthesized", "applying"}
  /\ r \in Declared \ live
  /\ DependenciesOf(r) \subseteq live
  /\ live' = live \cup {r}
  /\ pc' = IF live' = Declared THEN "applied" ELSE "applying"
  /\ UNCHANGED <<env, declVars, inputVars, retained, probe, decision>>

\* a security group admits a packet when one of its ingress rules matches it
Admits(sg, pkt) ==
  \E r \in sg.ingress :
     /\ InCidr(pkt.src, r.peer)
     /\ pkt.protocol = r.protocol
     /\ r.from_port <= pkt.port /\ pkt.port <= r.to_port

Packets == [src : Addr, protocol : {"tcp", "udp"},
            port : {PostgresPort - 1, PostgresPort, PostgresPort + 1}]

\* a peer sends a packet to the database of the applied stack
SendPacket ==
  /\ pc = "applied" /\ probe = NoProbe
  /\ \E pkt \in Packets :
       /\ probe' = [kind |-> "packet", pkt |-> pkt]
       /\ decision' = Admits(db_security_group, pkt)
  /\ UNCHANGED <<pc, env, declVars, inputVars, live, retained>>

AllActions == UNION {AlbStatements[i].actions : i \in 1..Len(AlbStatements)}

Requests == [action : AllActions, resource : ResourceKinds,
             keys : SUBSET {RequestedRegion, ClusterTag},
             createAction : {None, "CreateSecurityGroup"}]

\* the controller, under the service account's role, issues a request
SendRequest ==
  /\ pc = "applied" /\ probe = NoProbe
  /\ \E req \in Requests :
       /\ probe' = [kind |-> "request", req |-> req]
       /\ decision' = Authorized(alb_service_account.statements, req)
  /\ UNCHANGED <<pc, env, declVars, inputVars, live, retained>>

\* Teardown deletes one resource nothing live depends on; a resource with a
\* retaining removal policy is kept instead, and a deletion-protected one
\* cannot be deleted.
Delete(r) ==
  /\ pc \in {"applied", "destroying"}
  /\ r \in live
  /\ DependentsOf(r) \cap live = {}
  /\ ~DeletionProtected(r)
  /\ live' = live \ {r}
  /\ retained' = IF RemovalPolicyOf(r) = "DESTROY" THEN retained ELSE retained \cup {r}
  /\ pc' = IF live' = {} THEN "destroyed" ELSE "destroying"
  /\ probe' = NoProbe /\ decision' = FALSE
  /\ UNCHANGED <<env, declVars, inputVars>>

\* app.py is run again in a new process against the same environment
Rerun ==
  /\ pc \in {"synthesized", "destroyed"}
  /\ run < MaxRuns
  /\ run' = run + 1
  /\ prevTemplate' = Template
  /\ live' = {} /\ retained' = {}
  /\ probe' = NoProbe /\ decision' = FALSE
  /\ pc' = "app"
  /\ UNCHANGED <<env, declVars, account, region, regionAZs>>

AllResourceNames ==
  {"Network", "Cluster", "DatabaseSecurityGroup", "DatabaseSubnetGroup",
   "Database", "DatabaseSecret", "DatabaseSecretAttachment",
   "ALBServiceAccount", "ALBPolicy"}

Next ==
  \/ CreateApp
  \/ StackInit
  \/ DeclareVpc
  \/ DeclareCluster
  \/ OverrideComputeConfig
  \/ OverrideStorageConfig
  \/ DeclareDbSecurityGroup
  \/ AddIngressRule
  \/ DeclareDbSubnetGroup
  \/ DeclareDatabase
  \/ AddServiceAccount
  \/ \E k \in 1..Len(AlbStatements) : AddToPrincipalPolicy(k)
  \/ \E k \in 1..Len(CfnOutputs) : DeclareOutput(k)
  \/ Synth
  \/ \E r \in AllResourceNames : Create(r)
  \/ SendPacket
  \/ SendRequest
  \/ \E r \in AllResourceNames : Delete(r)
  \/ Rerun

Spec == Init /\ [][Next]_vars

(* ============================== properties ============================= *)
\* the declaration is complete: app.synth() has run
Synthesized == pc \in {"synthesized", "applying", "applied", "destroying", "destroyed"}

SubnetTypes == {PUBLIC, PRIVATE_WITH_EGRESS, PRIVATE_ISOLATED}

\* actions that only read: Describe*, Get*, List*
ReadOnlyActions == {
   "ec2:DescribeAccountAttributes", "ec2:DescribeAddresses",
   "ec2:DescribeAvailabilityZones", "ec2:DescribeInternetGateways", "ec2:DescribeVpcs",
   "ec2:DescribeSubnets", "ec2:DescribeSecurityGroups", "ec2:DescribeInstances",
   "ec2:DescribeNetworkInterfaces", "ec2:DescribeTags", "ec2:GetCoipPoolUsage",
   "ec2:DescribeCoipPools", "elasticloadbalancing:DescribeLoadBalancers",
   "elasticloadbalancing:DescribeLoadBalancerAttributes",
   "elasticloadbalancing:DescribeListeners",
   "elasticloadbalancing:DescribeListenerCertificates",
   "elasticloadbalancing:DescribeSSLPolicies", "elasticloadbalancing:DescribeRules",
   "elasticloadbalancing:DescribeTargetGroups",
   "elasticloadbalancing:DescribeTargetGroupAttributes",
   "elasticloadbalancing:DescribeTargetHealth", "elasticloadbalancing:DescribeTags",
   "cognito-idp:DescribeUserPoolClient", "acm:ListCertificates",
   "acm:DescribeCertificate", "iam:ListServerCertificates", "iam:GetServerCertificate",
   "waf-regional:GetWebACL", "waf-regional:GetWebACLForResource", "wafv2:GetWebACL",
   "wafv2:GetWebACLForResource", "shield:DescribeProtection",
   "shield:GetSubscriptionState", "shield:DescribeSubscription"}

\* actions of the ec2 and elasticloadbalancing services that change listeners,
\* rules, target groups, load balancers, security groups or their tags
MutatingNetworkActions == {
   "ec2:AuthorizeSecurityGroupIngress", "ec2:RevokeSecurityGroupIngress",
   "ec2:CreateSecurityGroup", "elasticloadbalancing:CreateListener",
   "elasticloadbalancing:DeleteListener", "elasticloadbalancing:CreateRule",
   "elasticloadbalancing:DeleteRule", "elasticloadbalancing:SetWebAcl",
   "elasticloadbalancing:ModifyListener",
   "elasticloadbalancing:AddListenerCertificates",
   "elasticloadbalancing:RemoveListenerCertificates",
   "elasticloadbalancing:ModifyRule", "elasticloadbalancing:CreateLoadBalancer",
   "elasticloadbalancing:CreateTargetGroup", "elasticloadbalancing:DeleteLoadBalancer",
   "elasticloadbalancing:DeleteTargetGroup",
   "elasticloadbalancing:ModifyLoadBalancerAttributes",
   "elasticloadbalancing:ModifyTargetGroup",
   "elasticloadbalancing:ModifyTargetGroupAttributes",
   "elasticloadbalancing:RegisterTargets", "elasticloadbalancing:DeregisterTargets",
   "elasticloadbalancing:SetIpAddressType", "elasticloadbalancing:SetSecurityGroups",
   "elasticloadbalancing:SetSubnets", "elasticloadbalancing:AddTags",
   "elasticloadbalancing:RemoveTags", "ec2:CreateTags", "ec2:DeleteTags",
   "ec2:DeleteSecurityGroup"}

CarriesOwnershipOrRegionCondition(st) ==
  st.conditions.Null \cap {ClusterTag, RequestedRegion} # {}

\* C1: every statement attached to the aws-load-balancer-controller identity
\* that allows a mutating action over listeners, rules, target groups or
\* security groups carries a condition on the cluster-ownership tag or on the
\* request region, and no request for such an action is authorized unless
\* the request carries one of those keys.
C1_MutatingActionsAreConditioned ==
  /\ \A i \in 1..Len(alb_service_account.statements) :
       LET st == alb_service_account.statements[i] IN
         st.actions \cap MutatingNetworkActions # {}
           => CarriesOwnershipOrRegionCondition(st)
  /\ (probe.kind = "request" /\ decision /\ probe.req.action \in MutatingNetworkActions)
       => probe.req.keys # {}

\* C2: the database security group has exactly one ingress rule, from the
\* VPC's own CIDR block, TCP, ports 5432 to 5432, and no allow-all egress;
\* a packet is admitted to the database only if it comes from inside the
\* network and targets TCP port 5432.
C2_DbIngressOnlyFromVpcOn5432 ==
  /\ Synthesized =>
       /\ db_security_group.ingress =
            {[peer |-> vpc.vpc_cidr_block, protocol |-> "tcp",
              from_port |-> 5432, to_port |-> 5432]}
       /\ Cardinality(db_security_group.ingress) = 1
       /\ vpc.vpc_cidr_block # any_ipv4
       /\ ~db_security_group.allow_all_outbound
       /\ \A e \in db_security_group.egress : e.peer # any_ipv4
       /\ database.security_groups = {"DatabaseSecurityGroup"}
  /\ (probe.kind = "packet" /\ decision) =>
       /\ InCidr(probe.pkt.src, vpc.vpc_cidr_block)
       /\ probe.pkt.protocol = "tcp"
       /\ probe.pkt.port = 5432

\* a packet from inside the network to port 5432 was admitted
C2_Witness ==
  /\ probe.kind = "packet" /\ decision
  /\ probe.pkt.src = <<10, 0>> /\ probe.pkt.port = 5432

\* C3: the synthesized network spans exactly 3 availability zones and has,
\* in every zone, exactly one subnet of each of the three tiers (9 subnets).
C3_ThreeZonesEachTierOnce ==
  Synthesized =>
    /\ Cardinality(vpc.availability_zones) = 3
    /\ \A z \in vpc.availability_zones : \A t \in SubnetTypes :
         Cardinality({s \in vpc.subnets : s.az = z /\ s.subnet_type = t}) = 1
    /\ Cardinality(vpc.subnets) = 9

\* C4: every subnet of the database's subnet group is an isolated-tier
\* subnet; no isolated subnet has a route to the internet gateway or a NAT
\* gateway; every private subnet has a default route through one of the 2
\* NAT gateways and every public subnet through the internet gateway.
C4_DatabaseSubnetsHaveNoInternetRoute ==
  Synthesized =>
    /\ database.subnet_group = "DatabaseSubnetGroup"
    /\ db_subnet_group.subnets # {}
    /\ db_subnet_group.subnets \subseteq vpc.subnets
    /\ \A s \in db_subnet_group.subnets :
         s.subnet_type = PRIVATE_ISOLATED /\ vpc.default_route[s].target = "none"
    /\ Cardinality(vpc.nat_gateway_azs) = 2
    /\ vpc.nat_gateway_azs \subseteq vpc.availability_zones
    /\ \A s \in vpc.subnets :
         /\ s.subnet_type = PRIVATE_ISOLATED => vpc.default_route[s].target = "none"
         /\ s.subnet_type = PRIVATE_WITH_EGRESS =>
              /\ vpc.default_route[s].target = "nat"
              /\ vpc.default_route[s].az \in vpc.nat_gateway_azs
         /\ s.subnet_type = PUBLIC =>
              vpc.default_route[s].target = "igw" /\ vpc.internet_gateway

\* the database sits on isolated subnets of a network whose third zone's
\* private subnet shares a NAT gateway of another zone
C4_Witness ==
  /\ Synthesized
  /\ \E s \in db_subnet_group.subnets : s.az = 3
  /\ \E s \in vpc.subnets :
       /\ s.subnet_type = PRIVATE_WITH_EGRESS /\ s.az = 3
       /\ vpc.default_route[s].az # s.az

\* everything r depends on, directly or through other resources
RECURSIVE Closure(_)
Closure(S) ==
  LET N == S \cup {d[2] : d \in {e \in deps : e[1] \in S}}
  IN IF N = S THEN S ELSE Closure(N)

\* C5: in every apply sequence the database exists only once the network,
\* its isolated subnet group and its security rule exist, the workload
\* identity (service account and its statements) only once the cluster
\* exists, and the declared graph has no dependency path between the
\* database and the cluster in either direction.
C5_ApplyOrderFollowsDeclaredEdges ==
  /\ "Database" \in live =>
       {"Network", "DatabaseSubnetGroup", "DatabaseSecurityGroup"} \subseteq live
  /\ "ALBServiceAccount" \in live => "Cluster" \in live
  /\ "ALBPolicy" \in live => {"ALBServiceAccount", "Cluster"} \subseteq live
  /\ Synthesized =>
       /\ "Cluster" \notin Closure({"Database"})
       /\ "Database" \notin Closure({"Cluster"})

\* the database was created before the cluster while the stack is applied
\* (the opposite order, cluster before database, is reachable as well)
C5_Witness ==
  /\ pc = "applying"
  /\ "Database" \in live /\ "Cluster" \notin live

ZonesOffered == Cardinality(StackAZs(env, regionAZs))

\* C6: when the target cannot supply 3 availability zones, the declaration
\* never reaches a successful apply and no network resource becomes active.
C6_NoNetworkBelowThreeZones ==
  (env # Absent /\ ZonesOffered < 3) =>
     /\ pc # "applied"
     /\ "Network" \notin live

OutputNamed(n) == {outputs[i] : i \in {j \in 1..Len(outputs) : outputs[j].name = n}}

\* C7: the declaration exposes exactly the four outputs ClusterName,
\* DatabaseEndpoint, DatabaseSecretArn and VpcId, bound to the cluster's
\* name, the database endpoint hostname, the secret's ARN (never its value)
\* and the network's id; after a successful apply all four resolve to
\* non-empty values, and an output resolves only once the resource it
\* references exists.
C7_FourOutputsResolveAfterApply ==
  /\ Synthesized =>
       /\ Len(outputs) = 4
       /\ OutputNamed("ClusterName") =
            {[name |-> "ClusterName", ref |-> "Cluster", attr |-> "cluster_name"]}
       /\ OutputNamed("DatabaseEndpoint") =
            {[name |-> "DatabaseEndpoint", ref |-> "Database",
              attr |-> "instance_endpoint.hostname"]}
       /\ OutputNamed("DatabaseSecretArn") =
            {[name |-> "DatabaseSecretArn", ref |-> "DatabaseSecretAttachment",
              attr |-> "secret_arn"]}
       /\ OutputNamed("VpcId") =
            {[name |-> "VpcId", ref |-> "Network", attr |-> "vpc_id"]}
       /\ database.credentials.password = None
       /\ \A i \in 1..Len(outputs) : outputs[i].ref \in Declared
  /\ pc = "applied" => \A i \in 1..Len(outputs) : Resolve(outputs[i]) # << >>
  /\ \A i \in 1..Len(outputs) :
       Resolve(outputs[i]) # << >> => outputs[i].ref \in live

\* all four outputs resolved after a successful apply
C7_Witness ==
  /\ pc = "applied"
  /\ \A i \in 1..Len(outputs) : Resolve(outputs[i]) # << >>

C9_DatabaseDestroyedAtTeardown ==
  /\ database # Absent =>
       /\ database.removal_policy = "DESTROY"
       /\ database.deletion_protection = FALSE
  /\ "Database" \notin retained
  /\ pc = "destroyed" => live = {} /\ retained = {}

\* teardown has deleted the database while other resources are still live
C9_Witness ==
  /\ pc = "destroying"
  /\ "Database" \notin live /\ "Database" \notin retained
  /\ "Network" \in live

\* C10: managed compute and managed block storage are both enabled, the
\* graph has no static node group (default capacity 0), and the single node
\* pool has MinSize <= DesiredSize <= MaxSize (0 <= 2 <= 1000) and a
\* max-unavailable percentage of 25, between 1 and 100.
C10_ComputeAndStorageDelegated ==
  Synthesized =>
    /\ cluster.overrides.ComputeConfig # Absent
    /\ cluster.overrides.StorageConfig # Absent
    /\ cluster.overrides.ComputeConfig.Enabled = TRUE
    /\ cluster.overrides.StorageConfig.BlockStorage.Enabled = TRUE
    /\ cluster.default_capacity = 0
    /\ cluster.nodegroups = {}
    /\ Declared = AllResourceNames
    /\ Len(cluster.overrides.ComputeConfig.NodePools) = 1
    /\ LET pool == cluster.overrides.ComputeConfig.NodePools[1] IN
         /\ pool.ScalingConfig.MinSize <= pool.ScalingConfig.DesiredSize
         /\ pool.ScalingConfig.DesiredSize <= pool.ScalingConfig.MaxSize
         /\ pool.ScalingConfig = [MinSize |-> 0, MaxSize |-> 1000, DesiredSize |-> 2]
         /\ pool.UpdateConfig.MaxUnavailablePercentage = 25
         /\ 1 <= pool.UpdateConfig.MaxUnavailablePercentage
         /\ pool.UpdateConfig.MaxUnavailablePercentage <= 100

\* the synthesized cluster carries both overrides
C10_Witness ==
  /\ pc = "synthesized"
  /\ cluster.overrides.ComputeConfig.Enabled
  /\ cluster.overrides.StorageConfig.BlockStorage.Enabled
====
